---- MODULE Spec2Model ----
(***************************************************************************)
(* A model of the Slack automation bot of src/main.go: the webhook handler *)
(* of main, handleMessageEvent, executeTask and executeJenkinsJob.         *)
(*                                                                         *)
(* Go strings are sequences of one-character strings, so that ToLower,    *)
(* Split, HasPrefix, Replace, Sprintf and base64 are computed, not        *)
(* assumed.  One request is served at a time; the handler is cut at its    *)
(* blocking calls (client.Do and api.PostMessage).                         *)
(***************************************************************************)
EXTENDS Integers, Sequences, FiniteSets, TLC

(***************************************************************************)
(* Bounds of the model.                                                    *)
(***************************************************************************)
\* the largest number of words in an inbound message text
MaxWords == 4

(***************************************************************************)
(* String literals of the source.                                          *)
(***************************************************************************)
S_space == <<" ">>
S_colon == <<":">>
S_list == <<"l","i","s","t">>
S_list_command == <<"l","i","s","t"," ","c","o","m","m","a","n","d">>
S_deploy_ == <<"d","e","p","l","o","y"," ">>
S_message == <<"m","e","s","s","a","g","e">>
S_url_verification == <<"u","r","l","_","v","e","r","i","f","i","c","a","t","i","o","n">>
S_service_name == <<"{","s","e","r","v","i","c","e","-","n","a","m","e","}">>
S_env == <<"{","e","n","v","}">>
S_POST == <<"P","O","S","T">>
S_GET == <<"G","E","T">>
S_Authorization == <<"A","u","t","h","o","r","i","z","a","t","i","o","n">>
S_Basic_ == <<"B","a","s","i","c"," ">>
S_dash_ == <<"-"," ">>
S_newline == <<"\n">>
S_list_header == <<"H","e","r","e"," ","a","r","e"," ","t","h","e"," ","a","v","a","i","l","a","b","l","e"," ","c","o","m","m","a","n","d","s",":","\n">>
S_unknown == <<"I"," ","d","o","n","'","t"," ","k","n","o","w"," ","y","o","u","r"," ","m","e","s","s","a","g","e","."," ","P","l","e","a","s","e"," ","t","r","y"," ","a","g","a","i","n",".">>
S_invalid_deploy == <<"I","n","v","a","l","i","d"," ","d","e","p","l","o","y"," ","c","o","m","m","a","n","d"," ","f","o","r","m","a","t","."," ","U","s","e",":"," ","d","e","p","l","o","y"," ","<","s","e","r","v","i","c","e","-","n","a","m","e",">"," ","<","e","n","v",">">>
S_jenkins_ok_1 == <<"J","e","n","k","i","n","s"," ","j","o","b"," ","f","o","r"," ","s","e","r","v","i","c","e"," ","'">>
S_jenkins_fail_1 == <<"F","a","i","l","e","d"," ","t","o"," ","e","x","e","c","u","t","e"," ","J","e","n","k","i","n","s"," ","j","o","b"," ","f","o","r"," ","s","e","r","v","i","c","e"," ","'">>
S_in_environment == <<"'"," ","i","n"," ","e","n","v","i","r","o","n","m","e","n","t"," ","'">>
S_executed_successfully == <<"'"," ","e","x","e","c","u","t","e","d"," ","s","u","c","c","e","s","s","f","u","l","l","y",".">>
S_quote_dot == <<"'",".">>
S_task_ == <<"T","a","s","k"," ","'">>
S_failed_to_execute == <<"'"," ","f","a","i","l","e","d"," ","t","o"," ","e","x","e","c","u","t","e",".">>

(***************************************************************************)
(* The Go standard library, as far as the program uses it.                 *)
(***************************************************************************)
UpperLetters == <<"A","B","C","D","E","F","G","H","I","J","K","L","M","N","O","P","Q","R","S","T","U","V","W","X","Y","Z">>
LowerLetters == <<"a","b","c","d","e","f","g","h","i","j","k","l","m","n","o","p","q","r","s","t","u","v","w","x","y","z">>
StdEncodingAlphabet == <<"A","B","C","D","E","F","G","H","I","J","K","L","M","N","O","P","Q","R","S","T","U","V","W","X","Y","Z","a","b","c","d","e","f","g","h","i","j","k","l","m","n","o","p","q","r","s","t","u","v","w","x","y","z","0","1","2","3","4","5","6","7","8","9","+","/">>

\* the position of character ch in the sequence letters, 0 when absent
IndexOfChar(letters, ch) ==
    IF \E i \in DOMAIN letters : letters[i] = ch
    THEN CHOOSE i \in DOMAIN letters : letters[i] = ch
    ELSE 0

\* the characters that have another case
Letters == {UpperLetters[i] : i \in DOMAIN UpperLetters} \cup {LowerLetters[i] : i \in DOMAIN LowerLetters}

LowerOf == [ch \in Letters |->
               IF IndexOfChar(UpperLetters, ch) # 0
               THEN LowerLetters[IndexOfChar(UpperLetters, ch)] ELSE ch]

UpperOf == [ch \in Letters |->
               IF IndexOfChar(LowerLetters, ch) # 0
               THEN UpperLetters[IndexOfChar(LowerLetters, ch)] ELSE ch]

\* unicode.ToLower on one character
ToLowerChar(ch) == IF ch \in Letters THEN LowerOf[ch] ELSE ch

\* unicode.ToUpper on one character
ToUpperChar(ch) == IF ch \in Letters THEN UpperOf[ch] ELSE ch

\* strings.ToLower
ToLower(s) == [i \in DOMAIN s |-> ToLowerChar(s[i])]

\* strings.ToUpper
ToUpper(s) == [i \in DOMAIN s |-> ToUpperChar(s[i])]

\* strings.HasPrefix
HasPrefix(s, prefix) ==
    /\ Len(s) >= Len(prefix)
    /\ SubSeq(s, 1, Len(prefix)) = prefix

\* strings.Index: the position of the first occurrence of substr in s, 0 when
\* there is none (Go's -1)
Index(s, substr) ==
    LET at == {i \in 1..(Len(s) - Len(substr) + 1) :
                  SubSeq(s, i, i + Len(substr) - 1) = substr}
    IN  IF at = {} THEN 0 ELSE CHOOSE i \in at : \A j \in at : i <= j

\* strings.Replace(s, old, new, 1) for a non-empty old
ReplaceFirst(s, old, new) ==
    LET i == Index(s, old)
    IN  IF i = 0 THEN s
        ELSE SubSeq(s, 1, i - 1) \o new \o SubSeq(s, i + Len(old), Len(s))

\* strings.Split(s, " ")
RECURSIVE Split(_)
Split(s) ==
    LET i == Index(s, S_space)
    IN  IF i = 0 THEN <<s>>
        ELSE <<SubSeq(s, 1, i - 1)>> \o Split(SubSeq(s, i + 1, Len(s)))

\* the byte of an ASCII character, for the characters credentials are made of
Ord(ch) ==
    IF IndexOfChar(LowerLetters, ch) # 0 THEN 96 + IndexOfChar(LowerLetters, ch)
    ELSE IF IndexOfChar(UpperLetters, ch) # 0 THEN 64 + IndexOfChar(UpperLetters, ch)
    ELSE IF ch = ":" THEN 58
    ELSE IF ch = " " THEN 32
    ELSE 63

\* base64.StdEncoding.EncodeToString of the bytes of s
RECURSIVE EncodeToString(_)
EncodeToString(s) ==
    LET B(i) == Ord(s[i])
        E(n) == StdEncodingAlphabet[n + 1]
    IN  IF Len(s) = 0 THEN << >>
        ELSE IF Len(s) = 1
             THEN <<E(B(1) \div 4), E((B(1) % 4) * 16), "=", "=">>
        ELSE IF Len(s) = 2
             THEN <<E(B(1) \div 4),
                    E((B(1) % 4) * 16 + B(2) \div 16),
                    E((B(2) % 16) * 4), "=">>
        ELSE <<E(B(1) \div 4),
               E((B(1) % 4) * 16 + B(2) \div 16),
               E((B(2) % 16) * 4 + B(3) \div 64),
               E(B(3) % 64)>> \o EncodeToString(SubSeq(s, 4, Len(s)))

\* the bytes url.Parse rejects as control characters
ControlChars == {"\t", "\n"}

\* http.NewRequest returns an error (and a nil request) when url.Parse
\* rejects the URL; the model keeps the control-character rule
NewRequestFails(url) == \E i \in DOMAIN url : url[i] \in ControlChars

(***************************************************************************)
(* JSON values as encoding/json decodes them into interface{}: an absent   *)
(* key and a JSON null both read as nil.                                   *)
(***************************************************************************)
Nil == [t |-> "nil", v |-> << >>]
Str(s) == [t |-> "string", v |-> s]
Num == [t |-> "number", v |-> << >>]

(***************************************************************************)
(* The configurations loadConfig can return (Config, Task, JenkinsConfig). *)
(***************************************************************************)
W_command == <<"c","o","m","m","a","n","d">>
W_deploy == <<"d","e","p","l","o","y">>
W_Payments == <<"P","a","y","m","e","n","t","s">>
K_payments == <<"p","a","y","m","e","n","t","s">>
K_deploy_payments_env == <<"d","e","p","l","o","y"," ","p","a","y","m","e","n","t","s"," ","{","e","n","v","}">>
U_user == <<"u">>
U_token == <<"t">>

Task(command, url, method, user, token) ==
    [Command |-> command, URL |-> url, Method |-> method,
     User |-> user, Token |-> token]

JenkinsConfig(user, token, urlFormat) ==
    [User |-> user, Token |-> token, URLFormat |-> urlFormat]

\* the zero value of Task, which a failed map lookup returns
ZeroTask == Task(<< >>, << >>, << >>, << >>, << >>)

\* a configuration as the deployment documents it: lowercase keys, one of
\* them shadowed by the list rule and one by the deploy rule
ConfigA ==
    [SlackToken |-> "xoxb",
     Tasks |->
        (K_payments :> Task(<<"p","a","y">>, <<"h","/","p">>, S_POST, U_user, U_token)) @@
        (W_command :> Task(<<"c","m","d">>, <<"h","/","c">>, S_POST, U_user, << >>)) @@
        (S_list :> Task(<<"l","s">>, <<"h","/","l">>, S_GET, << >>, << >>)) @@
        (K_deploy_payments_env :> Task(<<"d","p">>, <<"h","/","d">>, S_POST, U_user, U_token)),
     Jenkins |-> JenkinsConfig(U_user, U_token,
        <<"j","/","{","s","e","r","v","i","c","e","-","n","a","m","e","}","/","{","e","n","v","}">>)]

\* a configuration nothing validates: unparsable URLs, a key that is not
\* lowercase, methods other than GET and POST,
\* no Jenkins credentials, the placeholders in the other order
ConfigB ==
    [SlackToken |-> "xoxb",
     Tasks |->
        (K_payments :> Task(<<"p","a","y">>, <<"h","\t","p">>, S_POST, U_user, U_token)) @@
        (W_command :> Task(<<"c","m","d">>, <<"h","\t","c">>, <<"p","o","s","t">>, U_user, U_token)) @@
        (W_Payments :> Task(<<"P","A","Y">>, <<"h","/","P">>, S_GET, << >>, << >>)) @@
        (S_env :> Task(<<"e","n","v">>, <<"h","/","e">>, << >>, U_user, U_token)),
     Jenkins |-> JenkinsConfig(<< >>, << >>,
        <<"{","e","n","v","}","/","{","s","e","r","v","i","c","e","-","n","a","m","e","}">>)]

\* the configuration of a file without tasks, with a Jenkins URL format that
\* url.Parse rejects
ConfigC ==
    [SlackToken |-> "",
     Tasks |-> << >>,
     Jenkins |-> JenkinsConfig(U_user, << >>,
        <<"j","\t","{","s","e","r","v","i","c","e","-","n","a","m","e","}","{","e","n","v","}">>)]

Configs == {ConfigA, ConfigB, ConfigC}

(***************************************************************************)
(* The request bodies POSTed to /slack/events.                             *)
(***************************************************************************)
Words == {S_list, W_command, W_deploy, W_Payments, S_env}
Separators == {<<" ">>, <<" "," ">>}
Padding == {<< >>, <<" ">>}

RECURSIVE Join(_, _)
Join(ws, sep) ==
    IF Len(ws) = 0 THEN << >>
    ELSE IF Len(ws) = 1 THEN ws[1]
    ELSE ws[1] \o sep \o Join(Tail(ws), sep)

\* the message texts of the model: up to MaxWords words, joined by one or by
\* two spaces, as typed or in capitals, with or without surrounding spaces
Texts ==
    {lead \o (IF upper THEN ToUpper(Join(ws, sep)) ELSE Join(ws, sep)) \o trail :
        ws \in UNION {[1..n -> Words] : n \in 1..MaxWords},
        sep \in Separators, upper \in BOOLEAN,
        lead \in Padding, trail \in Padding}

C_channel == <<"C","1">>

Event(botID, type, subtype, text, channel) ==
    [bot_id |-> botID, type |-> type, subtype |-> subtype,
     text |-> text, channel |-> channel]

NoEvent == Event(Nil, Nil, Nil, Nil, Nil)

\* the plain messages a person types
PlainMessages == {Event(Nil, Str(S_message), Nil, Str(t), Str(C_channel)) : t \in Texts}

\* the texts the other events carry: a list request, a deploy command, a
\* configured key, an unknown text
FilterTexts == {S_list, W_deploy \o S_space \o W_Payments \o S_space \o S_env, K_payments, S_env}

\* bot messages, subtyped messages, events of another type, events whose
\* text or channel is missing or no string
OtherEvents ==
    {Event(b, ty, st, tx, ch) :
        b \in {Nil, Str(<< >>), Str(<<"B","7">>)},
        ty \in {Str(S_message), Str(<<"p","i","n">>), Nil},
        st \in {Nil, Str(<< >>), Str(<<"e","d","i","t">>)},
        tx \in {Str(t) : t \in FilterTexts} \cup {Nil, Num},
        ch \in {Str(C_channel), Nil}}

Body(kind, type, challenge, event, evt) ==
    [kind |-> kind, type |-> type, challenge |-> challenge,
     event |-> event, evt |-> evt]

NoBody == Body("none", Nil, Nil, "absent", NoEvent)

Bodies ==
    {Body("unreadable", Nil, Nil, "absent", NoEvent),
     Body("badjson", Nil, Nil, "absent", NoEvent),
     Body("object", Nil, Nil, "absent", NoEvent),
     Body("object", Str(<<"e","v">>), Nil, "other", NoEvent)}
    \cup {Body("object", Str(S_url_verification), c, "absent", NoEvent) :
             c \in {Nil, Num, Str(<<"a","b","c","1","2","3">>)}}
    \cup {Body("object", Str(<<"e","v">>), Nil, "object", e) : e \in PlainMessages}
    \cup {Body("object", Nil, Nil, "object", e) : e \in OtherEvents}

(***************************************************************************)
(* The outbound requests of executeTask and executeJenkinsJob.             *)
(***************************************************************************)
\* the nil *http.Request that http.NewRequest returns beside an error
NilRequest == [nil |-> TRUE, Method |-> << >>, URL |-> << >>, Header |-> << >>]

\* http.NewRequest(method, url, nil)
NewRequest(method, url) ==
    IF NewRequestFails(url) THEN NilRequest
    ELSE [nil |-> FALSE, Method |-> method, URL |-> url, Header |-> << >>]

\* "Basic " + base64.StdEncoding.EncodeToString([]byte(user + ":" + token))
BasicAuth(user, token) == S_Basic_ \o EncodeToString(user \o S_colon \o token)

\* req.Header.Add("Authorization", value)
HeaderAdd(req, value) ==
    [req EXCEPT !.Header = Append(@, <<S_Authorization, value>>)]

\* executeTask: the method of the request, POST only for exactly "POST"
taskMethod(task) == IF task.Method = S_POST THEN S_POST ELSE S_GET

\* a variant of taskAddsAuth that is content with one credential
taskAddsAuth_EitherCredential(task) ==
    /\ task.Method = S_POST
    /\ (task.User # << >> \/ task.Token # << >>)

\* executeTask: whether the Authorization header is added
taskAddsAuth(task) ==
    /\ task.Method = S_POST
    /\ task.User # << >>
    /\ task.Token # << >>

\* executeTask up to client.Do: the header is added to req before err is
\* looked at, so a nil req with credentials is dereferenced (a panic)
executeTaskRequest(task) ==
    LET req == NewRequest(taskMethod(task), task.URL)
    IN  IF taskAddsAuth(task) /\ req.nil
        THEN [outcome |-> "panic", req |-> NilRequest]
        ELSE IF req.nil
        THEN [outcome |-> "error", req |-> NilRequest]
        ELSE [outcome |-> "ready",
              req |-> IF taskAddsAuth(task)
                      THEN HeaderAdd(req, BasicAuth(task.User, task.Token))
                      ELSE req]

\* executeJenkinsJob up to client.Do: err is looked at first, the header is
\* added whatever user and token are
executeJenkinsJobRequest(url, user, token) ==
    LET req == NewRequest(S_POST, url)
    IN  IF req.nil
        THEN [outcome |-> "error", req |-> NilRequest]
        ELSE [outcome |-> "ready", req |-> HeaderAdd(req, BasicAuth(user, token))]

\* a variant of StatusOK that counts 300 as a success
StatusOK_Through300(code) == code >= 200 /\ code <= 300

\* resp.StatusCode >= 200 && resp.StatusCode < 300
StatusOK(code) == code >= 200 /\ code < 300

\* what client.Do returns: a transport error, or a response with a status
StatusCodes == {101, 199, 200, 204, 299, 300, 404, 500}
DoResults ==
    {[err |-> TRUE, StatusCode |-> 0]}
    \cup {[err |-> FALSE, StatusCode |-> c] : c \in StatusCodes}
NoResult == [err |-> FALSE, StatusCode |-> 0]

\* the boolean executeTask and executeJenkinsJob return after client.Do
executeResult(result) == ~result.err /\ StatusOK(result.StatusCode)

(***************************************************************************)
(* The replies of handleMessageEvent.                                      *)
(***************************************************************************)
\* the orders in which `for cmd := range config.Tasks` can visit the keys
KeyOrders(tasks) ==
    {o \in [1..Cardinality(DOMAIN tasks) -> DOMAIN tasks] :
        \A i, j \in DOMAIN o : o[i] = o[j] => i = j}

RECURSIVE commandsList(_)
commandsList(order) ==
    IF Len(order) = 0 THEN << >>
    ELSE S_dash_ \o order[1] \o S_newline \o commandsList(Tail(order))

listResponse(order) == S_list_header \o commandsList(order)

jenkinsResponse(serviceName, env, success) ==
    IF success
    THEN S_jenkins_ok_1 \o serviceName \o S_in_environment \o env \o S_executed_successfully
    ELSE S_jenkins_fail_1 \o serviceName \o S_in_environment \o env \o S_quote_dot

taskResponse(task, success) ==
    IF success
    THEN S_task_ \o task.Command \o S_executed_successfully
    ELSE S_task_ \o task.Command \o S_failed_to_execute

(***************************************************************************)
(* handleMessageEvent, up to its first blocking call.                      *)
(***************************************************************************)
\* evt["bot_id"] != nil
IsBot(evt) == evt.bot_id # Nil

\* a variant of IsPlainMessage that forgets the subtype
IsPlainMessage_IgnoringSubtype(evt) == evt.type = Str(S_message)

\* evt["type"] == "message" && evt["subtype"] == nil
IsPlainMessage(evt) == evt.type = Str(S_message) /\ evt.subtype = Nil

\* a variant of IsListRequest that knows "list" only
IsListRequest_ListOnly(messageText) == ToLower(messageText) = S_list

\* strings.ToLower(messageText) == "list command" || ... == "list"
IsListRequest(messageText) ==
    \/ ToLower(messageText) = S_list_command
    \/ ToLower(messageText) = S_list

\* a variant of IsDeployCommand that tests the prefix "deploy", without the space
IsDeployCommand_NoSpace(messageText) == HasPrefix(ToLower(messageText), W_deploy)

\* strings.HasPrefix(strings.ToLower(messageText), "deploy ")
IsDeployCommand(messageText) == HasPrefix(ToLower(messageText), S_deploy_)

\* a variant of DeployArgsOK that accepts surplus arguments
DeployArgsOK_AtLeast(args) == Len(args) >= 3

\* len(args) == 3
DeployArgsOK(args) == Len(args) = 3

\* the two strings.Replace calls that build jenkinsURL, one after the other
jenkinsURL(urlFormat, serviceName, env) ==
    ReplaceFirst(ReplaceFirst(urlFormat, S_service_name, serviceName), S_env, env)

\* a variant of userCommand that looks the text up as typed
userCommand_AsTyped(messageText) == messageText

\* userCommand := strings.ToLower(messageText)
userCommand(messageText) == ToLower(messageText)

\* task, exists := config.Tasks[userCommand]
TaskExists(tasks, messageText) == userCommand(messageText) \in DOMAIN tasks
LookupTask(tasks, messageText) ==
    IF TaskExists(tasks, messageText) THEN tasks[userCommand(messageText)] ELSE ZeroTask

\* the locals of one call of handleMessageEvent; next is where the call is:
\* "clientDo" (blocked in client.Do), "PostMessage" (about to post response),
\* "return" or "panic"; branch names the branch of the code it took
Frame(next, branch) ==
    [next |-> next, branch |-> branch,
     channelID |-> << >>, messageText |-> << >>,
     task |-> ZeroTask, serviceName |-> << >>, env |-> << >>,
     deployURL |-> << >>, req |-> NilRequest, result |-> NoResult,
     success |-> FALSE, response |-> << >>]

NoFrame == Frame("none", "none")

\* the branch for "deploy ..." (the list response is completed by the caller,
\* which picks the order of the range loop)
handleDeploy(f, cfg) ==
    LET args == Split(f.messageText)
    IN  IF DeployArgsOK(args)
        THEN LET url == jenkinsURL(cfg.Jenkins.URLFormat, args[2], args[3])
                 prep == executeJenkinsJobRequest(url, cfg.Jenkins.User, cfg.Jenkins.Token)
                 g == [f EXCEPT !.branch = "deploy", !.deployURL = url,
                                !.serviceName = args[2], !.env = args[3]]
             IN  IF prep.outcome = "ready"
                 THEN [g EXCEPT !.next = "clientDo", !.req = prep.req]
                 ELSE [g EXCEPT !.next = "PostMessage", !.success = FALSE,
                                !.response = jenkinsResponse(args[2], args[3], FALSE)]
        ELSE [f EXCEPT !.next = "PostMessage", !.branch = "invalid_deploy",
                       !.response = S_invalid_deploy]

\* the branch for a configured task
handleTask(f, cfg) ==
    LET task == LookupTask(cfg.Tasks, f.messageText)
        prep == executeTaskRequest(task)
        g == [f EXCEPT !.branch = "task", !.task = task]
    IN  IF prep.outcome = "panic" THEN [g EXCEPT !.next = "panic"]
        ELSE IF prep.outcome = "ready"
        THEN [g EXCEPT !.next = "clientDo", !.req = prep.req]
        ELSE [g EXCEPT !.next = "PostMessage", !.success = FALSE,
                       !.response = taskResponse(task, FALSE)]

handleMessageEvent(b, cfg) ==
    IF b.event = "absent" THEN Frame("return", "no_event")
    ELSE IF b.event # "object" THEN Frame("panic", "bad_event")
    ELSE IF IsBot(b.evt) THEN Frame("return", "bot")
    ELSE IF ~IsPlainMessage(b.evt) THEN Frame("return", "not_plain")
    ELSE IF b.evt.text.t # "string" \/ b.evt.channel.t # "string"
    THEN Frame("panic", "bad_event")
    ELSE LET f == [Frame("PostMessage", "unknown") EXCEPT
                      !.messageText = b.evt.text.v,
                      !.channelID = b.evt.channel.v,
                      !.response = S_unknown]
         IN  IF IsListRequest(f.messageText) THEN [f EXCEPT !.branch = "list"]
             ELSE IF IsDeployCommand(f.messageText) THEN handleDeploy(f, cfg)
             ELSE IF TaskExists(cfg.Tasks, f.messageText) THEN handleTask(f, cfg)
             ELSE f

(***************************************************************************)
(* The state: the configuration loaded at startup, the request in service, *)
(* and a second request that net/http serves at the same time on another   *)
(* goroutine.                                                              *)
(***************************************************************************)
VARIABLES
    config,     \* the *Config of main
    pc,         \* "idle", "clientDo", "PostMessage" or "done"
    body,       \* the body of the request in service
    w,          \* the http.ResponseWriter of the request
    h,          \* the locals of handleMessageEvent
    outbound,   \* the requests given to client.Do while serving the request
    posted,     \* the messages given to api.PostMessage while serving it
    conc        \* the request served concurrently: its pc, body, w, h,
                \* outbound and posted

vars == <<config, pc, body, w, h, outbound, posted, conc>>

\* an untouched ResponseWriter: net/http answers 200 with an empty body
Writer(code, kind, challenge) == [code |-> code, kind |-> kind, challenge |-> challenge]
NoWriter == Writer(200, "empty", << >>)

\* one request in service: the handler's position and its locals
Request(rpc, rbody, rw, rh, routbound, rposted) ==
    [pc |-> rpc, body |-> rbody, w |-> rw, h |-> rh,
     outbound |-> routbound, posted |-> rposted]

\* no request on the connection
IdleRequest == Request("idle", NoBody, NoWriter, NoFrame, << >>, << >>)

Init ==
    /\ config \in Configs
    /\ pc = "idle"
    /\ body = NoBody
    /\ w = NoWriter
    /\ h = NoFrame
    /\ outbound = << >>
    /\ posted = << >>
    /\ conc = IdleRequest

\* the handler of /slack/events, up to its first blocking call
handler(b) ==
    /\ body' = b
    /\ outbound' = << >>
    /\ posted' = << >>
    /\ UNCHANGED config
    /\ IF b.kind # "object"
       THEN /\ w' = Writer(400, "error", << >>)
            /\ h' = NoFrame
            /\ pc' = "done"
       ELSE IF b.type = Str(S_url_verification)
       THEN /\ w' = IF b.challenge.t = "number"
                    THEN Writer(400, "error", << >>)
                    ELSE Writer(200, "challenge", b.challenge.v)
            /\ h' = NoFrame
            /\ pc' = "done"
       ELSE LET f == handleMessageEvent(b, config)
            IN  /\ IF f.branch = "list"
                   THEN \E order \in KeyOrders(config.Tasks) :
                            h' = [f EXCEPT !.response = listResponse(order)]
                   ELSE h' = f
                /\ w' = IF f.next = "panic" THEN Writer(0, "aborted", << >>) ELSE NoWriter
                /\ pc' = IF f.next \in {"clientDo", "PostMessage"} THEN f.next ELSE "done"

\* client.Do(req) returns, and the executor returns success to the handler
ClientDo(result) ==
    /\ pc = "clientDo"
    /\ outbound' = Append(outbound, h.req)
    /\ LET success == executeResult(result)
       IN  h' = [h EXCEPT !.next = "PostMessage", !.result = result,
                          !.success = success,
                          !.response = IF h.branch = "deploy"
                                       THEN jenkinsResponse(h.serviceName, h.env, success)
                                       ELSE taskResponse(h.task, success)]
    /\ pc' = "PostMessage"
    /\ UNCHANGED <<config, body, w, posted>>

\* api.PostMessage(channelID, response) returns; an error is only logged
PostMessage(err) ==
    /\ pc = "PostMessage"
    /\ posted' = Append(posted, [channel |-> h.channelID, text |-> h.response, err |-> err])
    /\ h' = [h EXCEPT !.next = "return"]
    /\ pc' = "done"
    /\ UNCHANGED <<config, body, w, outbound>>

\* the handler has returned; the server waits for the next request
Return ==
    /\ pc = "done"
    /\ pc' = "idle"
    /\ body' = NoBody
    /\ w' = NoWriter
    /\ h' = NoFrame
    /\ outbound' = << >>
    /\ posted' = << >>
    /\ UNCHANGED config

\* the server accepts a request and runs the handler on it
ServeHTTP ==
    /\ pc = "idle"
    /\ \E b \in Bodies : handler(b)

\* one request at a time: no second request is in service
Next ==
    \/ ServeHTTP /\ UNCHANGED conc
    \/ \E result \in DoResults : ClientDo(result) /\ UNCHANGED conc
    \/ \E err \in BOOLEAN : PostMessage(err) /\ UNCHANGED conc
    \/ Return /\ UNCHANGED conc

Spec == Init /\ [][Next]_vars

(***************************************************************************)
(* Two requests in service at the same time.  The handler closure of main  *)
(* and handleMessageEvent keep everything in locals (body and err are      *)
(* declared in the closure), config is only read, and net/http recovers    *)
(* the panic of a handler goroutine: a step of one request leaves the      *)
(* other request as it is.                                                 *)
(***************************************************************************)
\* a variant of undisturbed in which a panic is not recovered and takes the
\* other request down with it
undisturbed_PanicKillsAll(other, f) ==
    IF f.next = "panic" /\ other.pc # "idle"
    THEN [other EXCEPT !.pc = "done", !.w = Writer(0, "aborted", << >>)]
    ELSE other

\* what a step of one request, f its locals after the step, leaves of the
\* other request
undisturbed(other, f) == other

\* the bodies of the requests served concurrently: a list request, a task, a
\* deployment, a text that is a key of one configuration only, an unreadable
\* body, a body that is no JSON object, an event that is no object, a
\* verification challenge
ConcurrentTexts ==
    {S_list, K_payments, S_env, W_deploy \o S_space \o W_Payments \o S_space \o S_list}

ConcurrentBodies ==
    {Body("unreadable", Nil, Nil, "absent", NoEvent),
     Body("badjson", Nil, Nil, "absent", NoEvent),
     Body("object", Str(<<"e","v">>), Nil, "other", NoEvent),
     Body("object", Str(S_url_verification), Str(<<"a","b","c","1","2","3">>),
          "absent", NoEvent)}
    \cup {Body("object", Str(<<"e","v">>), Nil, "object",
                Event(Nil, Str(S_message), Nil, Str(t), Str(C_channel))) :
             t \in ConcurrentTexts}

\* the handler of /slack/events up to its first blocking call, on the
\* concurrent request: the requests it can be after it
afterHandler(b, cfg) ==
    IF b.kind # "object"
    THEN {Request("done", b, Writer(400, "error", << >>), NoFrame, << >>, << >>)}
    ELSE IF b.type = Str(S_url_verification)
    THEN {Request("done", b,
                  IF b.challenge.t = "number"
                  THEN Writer(400, "error", << >>)
                  ELSE Writer(200, "challenge", b.challenge.v),
                  NoFrame, << >>, << >>)}
    ELSE LET f == handleMessageEvent(b, cfg)
             rw == IF f.next = "panic" THEN Writer(0, "aborted", << >>) ELSE NoWriter
             rpc == IF f.next \in {"clientDo", "PostMessage"} THEN f.next ELSE "done"
         IN  IF f.branch = "list"
             THEN {Request(rpc, b, rw, [f EXCEPT !.response = listResponse(order)],
                           << >>, << >>) : order \in KeyOrders(cfg.Tasks)}
             ELSE {Request(rpc, b, rw, f, << >>, << >>)}

\* client.Do(req) returns on the concurrent request
afterClientDo(r, result) ==
    LET success == executeResult(result)
    IN  [r EXCEPT !.pc = "PostMessage",
                  !.outbound = Append(@, r.h.req),
                  !.h = [@ EXCEPT !.next = "PostMessage", !.result = result,
                                  !.success = success,
                                  !.response = IF r.h.branch = "deploy"
                                               THEN jenkinsResponse(r.h.serviceName, r.h.env, success)
                                               ELSE taskResponse(r.h.task, success)]]

\* api.PostMessage returns on the concurrent request
afterPostMessage(r, err) ==
    [r EXCEPT !.pc = "done",
              !.posted = Append(@, [channel |-> r.h.channelID, text |-> r.h.response, err |-> err]),
              !.h = [@ EXCEPT !.next = "return"]]

\* the steps of the first request, with the concurrent one in service
ServeConcurrent ==
    /\ pc = "idle"
    /\ \E b \in ConcurrentBodies : handler(b)
    /\ conc' = undisturbed(conc, h')

ClientDoConcurrent ==
    /\ \E result \in DoResults : ClientDo(result)
    /\ conc' = undisturbed(conc, h')

PostMessageConcurrent ==
    /\ \E err \in BOOLEAN : PostMessage(err)
    /\ conc' = undisturbed(conc, h')

ReturnConcurrent ==
    /\ Return
    /\ conc' = undisturbed(conc, h')

\* the steps of the concurrent request
ConcServeHTTP ==
    /\ conc.pc = "idle"
    /\ \E b \in ConcurrentBodies : \E r \in afterHandler(b, config) : conc' = r
    /\ UNCHANGED <<config, pc, body, w, h, outbound, posted>>

ConcClientDo ==
    /\ conc.pc = "clientDo"
    /\ \E result \in DoResults : conc' = afterClientDo(conc, result)
    /\ UNCHANGED <<config, pc, body, w, h, outbound, posted>>

ConcPostMessage ==
    /\ conc.pc = "PostMessage"
    /\ \E err \in BOOLEAN : conc' = afterPostMessage(conc, err)
    /\ UNCHANGED <<config, pc, body, w, h, outbound, posted>>

ConcReturn ==
    /\ conc.pc = "done"
    /\ conc' = IdleRequest
    /\ UNCHANGED <<config, pc, body, w, h, outbound, posted>>

NextConcurrent ==
    \/ ServeConcurrent
    \/ ClientDoConcurrent
    \/ PostMessageConcurrent
    \/ ReturnConcurrent
    \/ ConcServeHTTP
    \/ ConcClientDo
    \/ ConcPostMessage
    \/ ConcReturn

SpecConcurrent == Init /\ [][NextConcurrent]_vars

(***************************************************************************)
(* What the properties below speak about.                                  *)
(***************************************************************************)
\* the request in service carries a plain message typed by a person:
\* type "message", no bot_id, no subtype, text and channel strings
ValidPlainMessage ==
    /\ body.kind = "object"
    /\ body.type # Str(S_url_verification)
    /\ body.event = "object"
    /\ body.evt.bot_id = Nil
    /\ body.evt.subtype = Nil
    /\ body.evt.type = Str(S_message)
    /\ body.evt.text.t = "string"
    /\ body.evt.channel.t = "string"

\* the text of the message in service
Text == body.evt.text.v

NonEmptyString(j) == j.t = "string" /\ j.v # << >>

WhiteSpace == {" ", "\t", "\n"}

\* the text without its leading and trailing white space
RECURSIVE TrimSpace(_)
TrimSpace(s) ==
    IF Len(s) = 0 THEN s
    ELSE IF s[1] \in WhiteSpace THEN TrimSpace(Tail(s))
    ELSE IF s[Len(s)] \in WhiteSpace THEN TrimSpace(SubSeq(s, 1, Len(s) - 1))
    ELSE s

RECURSIVE SumOfLengths(_)
SumOfLengths(keys) ==
    IF keys = {} THEN 0
    ELSE LET k == CHOOSE x \in keys : TRUE
         IN  Len(k) + 3 + SumOfLengths(keys \ {k})

\* r is the list header followed by one line "- key\n" per configured key
ListsTheKeys(r) ==
    /\ HasPrefix(r, S_list_header)
    /\ Len(r) = Len(S_list_header) + SumOfLengths(DOMAIN config.Tasks)
    /\ \A k \in DOMAIN config.Tasks : Index(r, S_dash_ \o k \o S_newline) # 0

\* the reply has been posted: the one message, to the channel of the event
RepliedWith(text) ==
    /\ Len(posted) = 1
    /\ posted[1].channel = body.evt.channel.v
    /\ posted[1].text = text

(***************************************************************************)
(* C1: handling a valid human-authored plain message produces exactly one  *)
(* outbound action, whatever the Config and the downstream outcome: one    *)
(* HTTP call followed by one reply, or one reply and no HTTP call; never   *)
(* no action, two HTTP calls or two replies.                               *)
(* The code breaks it: executeTask adds the header to the nil request of  *)
(* a POST task with credentials whose URL cannot be parsed, and panics.    *)
(***************************************************************************)
C1_ExactlyOneAction ==
    ValidPlainMessage =>
        /\ Len(outbound) <= 1
        /\ Len(posted) <= 1
        /\ (pc = "clientDo" => posted = << >>)
        /\ (pc = "done" => Len(posted) = 1)

(***************************************************************************)
(* C2: an event with a non-empty bot_id or a non-empty subtype produces no *)
(* outbound HTTP call and no reply, whatever its text is.                  *)
(***************************************************************************)
C2_BotAndSubtypeIgnored ==
    (/\ body.kind = "object"
     /\ body.event = "object"
     /\ \/ NonEmptyString(body.evt.bot_id)
        \/ NonEmptyString(body.evt.subtype))
    => /\ outbound = << >>
       /\ posted = << >>
       /\ pc \notin {"clientDo", "PostMessage"}

\* an edited message whose text is "list" has been served
C2_Witness ==
    /\ pc = "done"
    /\ body.evt = Event(Nil, Str(S_message), Str(<<"e","d","i","t">>), Str(S_list), Str(C_channel))
    /\ h.branch = "not_plain"

(***************************************************************************)
(* C3, as claimed: a message resolves to ListCommands exactly when its     *)
(* text, trimmed of surrounding white space and lowercased, is "list" or   *)
(* "list command".                                                         *)
(***************************************************************************)
C3_ListIffTrimmedLowercased ==
    ValidPlainMessage =>
        (h.branch = "list" <=> ToLower(TrimSpace(Text)) \in {S_list, S_list_command})

(***************************************************************************)
(* C3, amended: a message resolves to ListCommands exactly when its text,  *)
(* lowercased and not trimmed, is "list" or "list command"; the reply then *)
(* lists the configured keys and no outbound HTTP call is made.            *)
(***************************************************************************)
C3_ListIffLowercased ==
    ValidPlainMessage =>
        /\ h.branch = "list" <=> ToLower(Text) \in {S_list, S_list_command}
        /\ h.branch = "list" =>
              /\ outbound = << >>
              /\ pc \in {"PostMessage", "done"}
              /\ ListsTheKeys(h.response)
              /\ (pc = "done" => RepliedWith(h.response))

\* "LIST" has been answered with the list
C3_Witness ==
    /\ pc = "done"
    /\ ValidPlainMessage
    /\ Text = <<"L","I","S","T">>
    /\ h.branch = "list"
    /\ Len(posted) = 1
    /\ DOMAIN config.Tasks # {}

(***************************************************************************)
(* C4, as claimed: a message whose lowercased text starts with "deploy "   *)
(* resolves to Deploy, with service and env the second and third token in  *)
(* the case they were typed in, and triggers one deployment HTTP call, if  *)
(* splitting the text on single spaces gives exactly 3 tokens; otherwise   *)
(* it resolves to InvalidDeployFormat: the error reply and no HTTP call.   *)
(***************************************************************************)
C4_DeployIffThreeTokens ==
    (ValidPlainMessage /\ HasPrefix(ToLower(Text), S_deploy_)) =>
        IF Len(Split(Text)) = 3
        THEN /\ h.branch = "deploy"
             /\ h.serviceName = Split(Text)[2]
             /\ h.env = Split(Text)[3]
             /\ Len(outbound) <= 1
             /\ (pc \in {"PostMessage", "done"} =>
                    Len(outbound) = 1 /\ outbound[1].Method = S_POST)
        ELSE /\ h.branch = "invalid_deploy"
             /\ outbound = << >>
             /\ pc \in {"PostMessage", "done"}
             /\ h.response = S_invalid_deploy
             /\ (pc = "done" => RepliedWith(S_invalid_deploy))

(***************************************************************************)
(* C4, amended: as claimed, except that the Deploy branch runs the         *)
(* deployment executor once, which makes one deployment HTTP call (a POST  *)
(* to the substituted URL) when a request can be constructed from that URL *)
(* and no HTTP call when it cannot; the failure reply is then sent.        *)
(***************************************************************************)
C4_DeployIffThreeTokensAmended ==
    (ValidPlainMessage /\ HasPrefix(ToLower(Text), S_deploy_)) =>
        IF Len(Split(Text)) = 3
        THEN /\ h.branch = "deploy"
             /\ h.serviceName = Split(Text)[2]
             /\ h.env = Split(Text)[3]
             /\ Len(outbound) <= 1
             /\ (pc \in {"PostMessage", "done"} =>
                    IF NewRequestFails(h.deployURL)
                    THEN /\ outbound = << >>
                         /\ h.response = jenkinsResponse(h.serviceName, h.env, FALSE)
                    ELSE /\ Len(outbound) = 1
                         /\ outbound[1].Method = S_POST
                         /\ outbound[1].URL = h.deployURL)
             /\ (pc = "done" => RepliedWith(h.response))
        ELSE /\ h.branch = "invalid_deploy"
             /\ outbound = << >>
             /\ pc \in {"PostMessage", "done"}
             /\ h.response = S_invalid_deploy
             /\ (pc = "done" => RepliedWith(S_invalid_deploy))

\* "deploy Payments list" has been deployed, the capital P kept
C4_Witness ==
    /\ pc = "done"
    /\ ValidPlainMessage
    /\ Text = W_deploy \o S_space \o W_Payments \o S_space \o S_list
    /\ h.branch = "deploy"
    /\ h.serviceName = W_Payments
    /\ h.env = S_list
    /\ Len(outbound) = 1
    /\ Len(posted) = 1

(***************************************************************************)
(* C5: every deploy message with several consecutive spaces, or with       *)
(* leading or trailing white space, resolves to InvalidDeployFormat: no    *)
(* deployment HTTP call, and neither Unknown nor StaticTask.               *)
(* The code breaks it: Split counts the empty tokens between and after    *)
(* spaces, so "deploy  x" and "deploy x " have 3 tokens and are deployed.  *)
(***************************************************************************)
HasConsecutiveSpaces(s) == Index(s, <<" ", " ">>) # 0

IsDeployMessage(s) == HasPrefix(ToLower(TrimSpace(s)), S_deploy_)

C5_IrregularSpacingIsInvalid ==
    (/\ ValidPlainMessage
     /\ IsDeployMessage(Text)
     /\ HasConsecutiveSpaces(Text) \/ Text # TrimSpace(Text))
    => /\ h.branch = "invalid_deploy"
       /\ outbound = << >>
       /\ pc # "clientDo"

(***************************************************************************)
(* C6, as claimed: a message resolves to StaticTask exactly when its text, *)
(* trimmed and compared without regard to case, equals a key of the Task   *)
(* mapping and matched neither the list rule nor the "deploy " prefix rule.*)
(***************************************************************************)
C6_TaskIffTrimmedKey ==
    ValidPlainMessage =>
        (h.branch = "task" <=>
            /\ \E k \in DOMAIN config.Tasks : ToLower(k) = ToLower(TrimSpace(Text))
            /\ ToLower(TrimSpace(Text)) \notin {S_list, S_list_command}
            /\ ~HasPrefix(ToLower(Text), S_deploy_))

(***************************************************************************)
(* C6, amended: a message resolves to StaticTask(task) exactly when its    *)
(* lowercased text, not trimmed, is itself a key of the Task mapping (so a *)
(* key that is not lowercase is never matched) and it matched neither the  *)
(* list rule nor the "deploy " prefix rule; these two rules take           *)
(* precedence, so a key "list", "list command" or one starting with        *)
(* "deploy " is never dispatched as a static task.                         *)
(***************************************************************************)
C6_TaskIffLowercasedKey ==
    ValidPlainMessage =>
        /\ h.branch = "task" <=>
              /\ ToLower(Text) \in DOMAIN config.Tasks
              /\ ToLower(Text) \notin {S_list, S_list_command}
              /\ ~HasPrefix(ToLower(Text), S_deploy_)
        /\ h.branch = "task" => h.task = config.Tasks[ToLower(Text)]
        /\ h.branch # "task" => h.task = ZeroTask
        /\ \A i \in DOMAIN outbound :
              h.branch = "task" \/ outbound[i].URL = h.deployURL

\* "PAYMENTS" has run the task of the key "payments"
C6_Witness ==
    /\ pc = "done"
    /\ ValidPlainMessage
    /\ Text = ToUpper(K_payments)
    /\ h.branch = "task"
    /\ K_payments \in DOMAIN config.Tasks
    /\ h.task = config.Tasks[K_payments]
    /\ Len(outbound) = 1
    /\ Len(posted) = 1

(***************************************************************************)
(* C7: a plain message whose text matches neither "list"/"list command",   *)
(* nor the "deploy " prefix, nor a configured key resolves to Unknown: the *)
(* reply is exactly "I don't know your message. Please try again." and no  *)
(* outbound HTTP call is made.                                             *)
(***************************************************************************)
C7_UnknownReply ==
    (/\ ValidPlainMessage
     /\ ToLower(Text) \notin {S_list, S_list_command}
     /\ ~HasPrefix(ToLower(Text), S_deploy_)
     /\ ToLower(Text) \notin DOMAIN config.Tasks)
    => /\ h.branch = "unknown"
       /\ outbound = << >>
       /\ pc \in {"PostMessage", "done"}
       /\ h.response = S_unknown
       /\ Len(posted) <= 1
       /\ (pc = "done" => RepliedWith(S_unknown))

\* " list" has been answered with the fixed reply
C7_Witness ==
    /\ pc = "done"
    /\ ValidPlainMessage
    /\ Text = <<" ","l","i","s","t">>
    /\ h.branch = "unknown"
    /\ RepliedWith(S_unknown)
    /\ outbound = << >>

(***************************************************************************)
(* C8: the shape of the outbound request is fixed by the dispatch path.  A *)
(* static task is sent as POST if task.method is exactly "POST" and as GET *)
(* for any other value, with the header Authorization: Basic               *)
(* base64(user:token) if and only if the method is POST and user and token *)
(* are both non-empty.  A deployment is always sent as POST and always     *)
(* with that header, also when user and token are empty.                   *)
(***************************************************************************)
S_Basic_dTp0 == <<"B","a","s","i","c"," ","d","T","p","0">>
S_Basic_Og == <<"B","a","s","i","c"," ","O","g","=","=">>

\* the Authorization header for user and token; base64("u:t") is "dTp0" and
\* base64(":") is "Og=="
AuthorizationOf(user, token) ==
    <<S_Authorization,
      IF user = <<"u">> /\ token = <<"t">> THEN S_Basic_dTp0
      ELSE IF user = << >> /\ token = << >> THEN S_Basic_Og
      ELSE S_Basic_ \o EncodeToString(user \o S_colon \o token)>>

RequestShapeOK(req) ==
    /\ ~req.nil
    /\ h.branch \in {"task", "deploy"}
    /\ h.branch = "task" =>
          /\ req.URL = h.task.URL
          /\ req.Method = (IF h.task.Method = <<"P","O","S","T">> THEN S_POST ELSE S_GET)
          /\ req.Header =
                IF /\ h.task.Method = <<"P","O","S","T">>
                   /\ h.task.User # << >>
                   /\ h.task.Token # << >>
                THEN <<AuthorizationOf(h.task.User, h.task.Token)>>
                ELSE << >>
    /\ h.branch = "deploy" =>
          /\ req.URL = h.deployURL
          /\ req.Method = S_POST
          /\ req.Header = <<AuthorizationOf(config.Jenkins.User, config.Jenkins.Token)>>

C8_RequestShape ==
    /\ \A i \in DOMAIN outbound : RequestShapeOK(outbound[i])
    /\ pc = "clientDo" => RequestShapeOK(h.req)

\* a deployment without credentials has been sent with "Basic Og=="
C8_Witness ==
    /\ pc = "done"
    /\ h.branch = "deploy"
    /\ config.Jenkins.User = << >>
    /\ config.Jenkins.Token = << >>
    /\ Len(outbound) = 1
    /\ outbound[1].Method = S_POST
    /\ outbound[1].Header = <<<<S_Authorization, S_Basic_Og>>>>

(***************************************************************************)
(* C9: on the static-task path and on the deployment path the executor     *)
(* returns success = true if and only if a response was received with a    *)
(* status code in 200..299; any other status code and any transport error  *)
(* give false, and the call is never retried.                              *)
(***************************************************************************)
C9_SuccessIffStatus2xx ==
    /\ Len(outbound) <= 1
    /\ (/\ h.branch \in {"task", "deploy"}
        /\ pc \in {"PostMessage", "done"}
        /\ h.next # "panic")
       => /\ h.success <=>
                /\ Len(outbound) = 1
                /\ ~h.result.err
                /\ h.result.StatusCode \in 200..299
          /\ h.response = IF h.branch = "task"
                          THEN taskResponse(h.task, h.success)
                          ELSE jenkinsResponse(h.serviceName, h.env, h.success)

\* a deployment answered with status 300 has been reported as failed
C9_Witness ==
    /\ pc = "done"
    /\ h.branch = "deploy"
    /\ Len(outbound) = 1
    /\ h.result = [err |-> FALSE, StatusCode |-> 300]
    /\ ~h.success
    /\ RepliedWith(jenkinsResponse(h.serviceName, h.env, FALSE))

(***************************************************************************)
(* C10: the deployment URL is url_format with the first occurrence of      *)
(* {service-name} replaced verbatim by service and the first occurrence of *)
(* {env} replaced verbatim by env, all other characters unchanged; an      *)
(* argument that itself contains placeholder text appears verbatim.        *)
(* Stated for non-empty arguments, which is all it takes to see the code   *)
(* break it: the second Replace rescans what the first one put in.         *)
(***************************************************************************)
\* s with the n characters from position i on replaced by new; s when i = 0
ReplaceAt(s, i, n, new) ==
    IF i = 0 THEN s
    ELSE SubSeq(s, 1, i - 1) \o new \o SubSeq(s, i + n, Len(s))

\* both placeholders of urlFormat, where urlFormat has them, replaced at once
SubstituteBoth(urlFormat, service, env) ==
    LET i == Index(urlFormat, S_service_name)
        j == Index(urlFormat, S_env)
    IN  IF i < j
        THEN ReplaceAt(ReplaceAt(urlFormat, j, Len(S_env), env),
                       i, Len(S_service_name), service)
        ELSE ReplaceAt(ReplaceAt(urlFormat, i, Len(S_service_name), service),
                       j, Len(S_env), env)

C10_VerbatimSubstitution ==
    (h.branch = "deploy" /\ h.serviceName # << >> /\ h.env # << >>) =>
        h.deployURL = SubstituteBoth(config.Jenkins.URLFormat, h.serviceName, h.env)

(***************************************************************************)
(* C13: for every static Task, executeTask ends by returning a boolean and *)
(* the handler then sends the success or the failure reply; when the       *)
(* outbound request cannot be constructed it returns false and never uses  *)
(* the unconstructed request, also for a POST task with user and token.    *)
(* The code breaks it: for such a task the header is added to the nil      *)
(* request before err is looked at, and the handler panics.                *)
(***************************************************************************)
C13_ExecuteTaskReturns ==
    h.branch = "task" =>
        /\ h.next # "panic"
        /\ pc \in {"clientDo", "PostMessage", "done"}
        /\ NewRequestFails(h.task.URL) =>
              /\ outbound = << >>
              /\ pc # "clientDo"
              /\ ~h.success
              /\ h.response = taskResponse(h.task, FALSE)
        /\ pc = "done" => RepliedWith(taskResponse(h.task, h.success))

(***************************************************************************)
(* C11: answering a list request does not change the configuration, and    *)
(* any two list requests against the same configuration are answered with *)
(* the same command set in the same order: the reply text is identical     *)
(* each time.                                                              *)
(* The code breaks the order: the reply is built by ranging over the map   *)
(* config.Tasks, and Go starts the iteration of a map at a random place.   *)
(* The command set is the same each time.                                  *)
(***************************************************************************)
BothListed == h.branch = "list" /\ conc.h.branch = "list"

C11_SameCommandSet ==
    BothListed => ListsTheKeys(h.response) /\ ListsTheKeys(conc.h.response)

C11_StableListing ==
    /\ C11_SameCommandSet
    /\ BothListed => h.response = conc.h.response

(***************************************************************************)
(* C12: under any interleaving of two requests, the outbound call, the     *)
(* reply and the HTTP response of each request are what its own event, the *)
(* configuration and the result of its own downstream call give; the       *)
(* failure of the other request (an unreadable body, a malformed event, a  *)
(* failed call, a failed reply) changes nothing of it.  The reply to a     *)
(* list request is given up to the order of the range loop, which no other *)
(* request influences.                                                     *)
(***************************************************************************)
ThisRequest == Request(pc, body, w, h, outbound, posted)

\* the reply r posted is the one its own handling gives
OwnReply(r, f) ==
    /\ Len(r.posted) = 1
    /\ r.posted[1].channel = f.channelID
    /\ r.posted[1].text =
          IF f.next = "clientDo"
          THEN IF f.branch = "deploy"
               THEN jenkinsResponse(f.serviceName, f.env, executeResult(r.h.result))
               ELSE taskResponse(f.task, executeResult(r.h.result))
          ELSE IF f.branch = "list" THEN r.h.response
          ELSE f.response
    /\ f.branch = "list" => ListsTheKeys(r.posted[1].text)

\* r is where its own body, the configuration and its own downstream result
\* put it
OwnOutcome(r) ==
    r.pc # "idle" =>
        IF r.body.kind # "object"
        THEN /\ r.pc = "done"
             /\ r.w = Writer(400, "error", << >>)
             /\ r.outbound = << >>
             /\ r.posted = << >>
        ELSE IF r.body.type = Str(S_url_verification)
        THEN /\ r.pc = "done"
             /\ r.w = IF r.body.challenge.t = "number"
                      THEN Writer(400, "error", << >>)
                      ELSE Writer(200, "challenge", r.body.challenge.v)
             /\ r.outbound = << >>
             /\ r.posted = << >>
        ELSE LET f == handleMessageEvent(r.body, config)
             IN  /\ r.w = IF f.next = "panic"
                          THEN Writer(0, "aborted", << >>)
                          ELSE NoWriter
                 /\ f.next = "clientDo" =>
                        /\ r.pc \in {"clientDo", "PostMessage", "done"}
                        /\ r.outbound = IF r.pc = "clientDo" THEN << >> ELSE <<f.req>>
                        /\ IF r.pc = "done" THEN OwnReply(r, f) ELSE r.posted = << >>
                 /\ f.next = "PostMessage" =>
                        /\ r.pc \in {"PostMessage", "done"}
                        /\ r.outbound = << >>
                        /\ IF r.pc = "done" THEN OwnReply(r, f) ELSE r.posted = << >>
                 /\ f.next \notin {"clientDo", "PostMessage"} =>
                        /\ r.pc = "done"
                        /\ r.outbound = << >>
                        /\ r.posted = << >>

=============================================================================
